---- MODULE Spec2Model ----
(***************************************************************************)
(* A model of the two pipelines of Parsing-search_gost:                    *)
(*   download_kms_docs.py    table/column detection, file naming, download *)
(*   search_and_highlight.py rectangle de-duplication, highlight and save  *)
(* Each pipeline has its own specification over the same variables; the    *)
(* variables of the other pipelines stay at their idle values.             *)
(***************************************************************************)
EXTENDS Integers, Sequences, FiniteSets, TLC

VARIABLES
    \* ---- find_target_table (download_kms_docs.py)
    tables,     \* soup.find_all("table"): the page's tables in document order
    ti,         \* position of the loop of find_target_table (1-based)
    tpc,        \* "idle" | "scan" | "returned"
    ret,        \* the pair returned: [table |-> index or 0, idx |-> <<>> or <<col>>]
    idxs,       \* what detect_designation_col returned for each table examined
    \* ---- main's download loop, download (download_kms_docs.py)
    onlyPdf,    \* ONLY_PDF
    rows,       \* extract_rows' result: <<designation, href>> pairs
    di,         \* position of the loop of main (1-based)
    dpc,        \* "idle" | "loop" | "get" | "copy" | "done"
    fs,         \* the target directory: file name -> [got, total] chunks held
    dest,       \* what unique_path returned for the row
    file_url,   \* urljoin(URL, href)
    resp,       \* the response's Content-Type header, ";"-separated, None if absent
    ext,        \* guess_ext's result
    final,      \* dest_path as download rewrites it
    tmp,        \* final + ".part"
    ok,
    err,
    log,        \* per row attempted: the row, "ok" | "err", the path saved and
                \* whether a file was already there when os.replace ran
    \* ---- _dedup_rects (search_and_highlight.py)
    rects,      \* the rectangles _search_rects collected, <<x0, y0, x1, y1>>
    rpos,       \* position of the loop (1-based)
    seen,       \* the keys seen
    kept,       \* out, as the positions in rects of the rectangles appended
    rpc,        \* "idle" | "loop" | "returned"
    \* ---- main's scan loop, highlight_file (search_and_highlight.py)
    pdfs,       \* list(iter_pdfs(docs_dir)): [dir, name, fail, pages]
    si,         \* position of the loop (1-based)
    spc,        \* "idle" | "loop" | "done"
    outDir,     \* the output directory: file name -> position of the pdf saved
    matched,    \* matched_files: [saved, hits, pages]
    total_hits,
    \* ---- sanitize_filename (download_kms_docs.py)
    name,       \* the text to sanitize, a sequence of characters
    out1,       \* sanitize_filename(name)
    out2,       \* sanitize_filename(out1)
    npc         \* "idle" | "in" | "once" | "twice"

tableVars == <<tables, ti, tpc, ret, idxs>>
dlVars == <<onlyPdf, rows, di, dpc, fs, dest, file_url, resp, ext, final, tmp, ok, err, log>>
dedupVars == <<rects, rpos, seen, kept, rpc>>
searchVars == <<pdfs, si, spc, outDir, matched, total_hits>>
sanVars == <<name, out1, out2, npc>>
vars == <<tableVars, dlVars, dedupVars, searchVars, sanVars>>
notTableVars == <<dlVars, dedupVars, searchVars, sanVars>>
notDlVars == <<tableVars, dedupVars, searchVars, sanVars>>
notDedupVars == <<tableVars, dlVars, searchVars, sanVars>>
notSearchVars == <<tableVars, dlVars, dedupVars, sanVars>>
notSanVars == <<tableVars, dlVars, dedupVars, searchVars>>

\* Python's None and an int result, as a sequence of length 0 or 1.
None == <<>>
Some(x) == <<x>>

(***************************************************************************)
(* The idle values: what a pipeline's variables hold while another runs.   *)
(***************************************************************************)
NoUrl == [path |-> <<>>, query |-> <<>>, frag |-> <<>>]

TableIdle ==
    /\ tables = <<>>
    /\ ti = 1
    /\ tpc = "idle"
    /\ ret = [table |-> 0, idx |-> None]
    /\ idxs = <<>>

DownloadIdle ==
    /\ onlyPdf = TRUE
    /\ rows = <<>>
    /\ di = 1
    /\ dpc = "idle"
    /\ fs = <<>>
    /\ dest = <<>>
    /\ file_url = NoUrl
    /\ resp = None
    /\ ext = ""
    /\ final = <<>>
    /\ tmp = <<>>
    /\ ok = 0
    /\ err = 0
    /\ log = <<>>

DedupIdle ==
    /\ rects = <<>>
    /\ rpos = 1
    /\ seen = {}
    /\ kept = <<>>
    /\ rpc = "idle"

SearchIdle ==
    /\ pdfs = <<>>
    /\ si = 1
    /\ spc = "idle"
    /\ outDir = <<>>
    /\ matched = <<>>
    /\ total_hits = 0

SanitizeIdle ==
    /\ name = <<>>
    /\ out1 = <<>>
    /\ out2 = <<>>
    /\ npc = "idle"

Min(S) == CHOOSE x \in S : \A y \in S : x <= y

(***************************************************************************)
(* Tables.  A cell is what the code reads of it: whether its normalized    *)
(* text contains the marker, and whether it holds an <a href>.  A row is   *)
(* its cells and whether one of them is a <th>.  thead is the position, in *)
(* find_all("tr"), of the first <tr> of the table's <thead>, 0 if none.    *)
(***************************************************************************)
MaxSize == 7    \* tables + rows + cells of a page

Cells == [marker : BOOLEAN, link : BOOLEAN]

\* The shape of a table: its thead position and the number of cells of each
\* row.  A shape weighs one for the table, one per row and one per cell.
RowLens[w \in 0..MaxSize] ==
    IF w = 0 THEN {<<>>}
    ELSE UNION {{<<k - 1>> \o rest : rest \in RowLens[w - k]} : k \in 1..w}

TableShapes(w) ==
    UNION {{[thead |-> h, lens |-> ls] : h \in 0..Len(ls)} : ls \in RowLens[w - 1]}

PageShapes[w \in 0..MaxSize] ==
    IF w = 0 THEN {<<>>}
    ELSE UNION {{<<t>> \o rest : t \in TableShapes(k), rest \in PageShapes[w - k]} : k \in 1..w}

Shapes == UNION {PageShapes[w] : w \in 0..MaxSize}

RECURSIVE SumSeq(_)
SumSeq(s) == IF s = <<>> THEN 0 ELSE Head(s) + SumSeq(Tail(s))

\* the cells before row j of table i, and that row's number in the page
CellsBefore(shape, i, j) ==
    SumSeq([a \in 1..(i - 1) |-> SumSeq(shape[a].lens)])
        + SumSeq(SubSeq(shape[i].lens, 1, j - 1))
RowNo(shape, i, j) ==
    SumSeq([a \in 1..(i - 1) |-> Len(shape[a].lens)]) + j

NCells(shape) == SumSeq([a \in 1..Len(shape) |-> SumSeq(shape[a].lens)])
NRows(shape) == SumSeq([a \in 1..Len(shape) |-> Len(shape[a].lens)])

\* the page of that shape with cells c and <th> flags h (a row without cells
\* holds no <th>)
Page(shape, c, h) ==
    [i \in 1..Len(shape) |->
        [thead |-> shape[i].thead,
         rows |-> [j \in 1..Len(shape[i].lens) |->
            [th |-> shape[i].lens[j] > 0 /\ h[RowNo(shape, i, j)],
             cells |-> [k \in 1..shape[i].lens[j] |->
                            c[CellsBefore(shape, i, j) + k]]]]]]

\* detect_designation_col, lines 111-126: the header row's position, 0 if none
HeaderRow(t) ==
    LET withCells == {i \in 1..Len(t.rows) : Len(t.rows[i].cells) > 0}
        withTh == {i \in withCells : t.rows[i].th}
    IN  IF t.thead # 0 THEN t.thead
        ELSE IF withTh # {} THEN Min(withTh)
        ELSE IF withCells # {} THEN Min(withCells)
        ELSE 0

\* lines 128-130
Headers(t) == IF HeaderRow(t) = 0 THEN <<>> ELSE t.rows[HeaderRow(t)].cells

\* lines 133-135: the first header containing the marker (0-based), or None
HeaderIdx(headers) ==
    LET hit == {i \in 1..Len(headers) : headers[i].marker}
    IN  IF hit = {} THEN None ELSE Some(Min(hit) - 1)

\* line 140
MaxCols(t) ==
    IF Len(t.rows) = 0 THEN 0
    ELSE CHOOSE m \in {Len(t.rows[i].cells) : i \in 1..Len(t.rows)} :
            \A i \in 1..Len(t.rows) : Len(t.rows[i].cells) <= m

\* a count that forgets to skip the first row
LinkCountAllRows(t, col) ==
    Cardinality({i \in 1..Len(t.rows) :
        /\ Len(t.rows[i].cells) > col
        /\ t.rows[i].cells[col + 1].link})

\* lines 141-150: link_counts[col], col 0-based; rows[1:] is rows 2..Len
LinkCount(t, col) ==
    Cardinality({i \in 2..Len(t.rows) :
        /\ Len(t.rows[i].cells) > col
        /\ t.rows[i].cells[col + 1].link})

\* lines 151-154: max() keeps the first index among the largest counts
LinkIdx(t) ==
    LET cols == 0..(MaxCols(t) - 1)
    IN  IF \E c \in cols : LinkCount(t, c) > 0
        THEN Some(Min({c \in cols : \A d \in cols : LinkCount(t, d) <= LinkCount(t, c)}))
        ELSE None

detect_designation_col(t) ==
    IF HeaderIdx(Headers(t)) # None THEN HeaderIdx(Headers(t)) ELSE LinkIdx(t)

\* find_target_table, lines 185-189: table ti yields a column
FoundTable ==
    /\ tpc = "scan"
    /\ ti <= Len(tables)
    /\ detect_designation_col(tables[ti]) # None
    /\ ret' = [table |-> ti, idx |-> detect_designation_col(tables[ti])]
    /\ idxs' = Append(idxs, detect_designation_col(tables[ti]))
    /\ tpc' = "returned"
    /\ UNCHANGED <<tables, ti, notTableVars>>

\* find_target_table, lines 185-187: table ti yields none, the loop goes on
SkipTable ==
    /\ tpc = "scan"
    /\ ti <= Len(tables)
    /\ detect_designation_col(tables[ti]) = None
    /\ idxs' = Append(idxs, None)
    /\ ti' = ti + 1
    /\ UNCHANGED <<tables, tpc, ret, notTableVars>>

\* find_target_table, line 190
NoTable ==
    /\ tpc = "scan"
    /\ ti > Len(tables)
    /\ ret' = [table |-> 0, idx |-> None]
    /\ tpc' = "returned"
    /\ UNCHANGED <<tables, ti, idxs, notTableVars>>

(***************************************************************************)
(* Names and URLs.  A string is the sequence of the pieces the code tells  *)
(* apart: a file name is a stem, a counter " (i)" and extensions; a URL    *)
(* path is its "/"-separated segments, each a name and its extensions.     *)
(***************************************************************************)
Exts == {".pdf", ".PDF", ".html", ".php", ".bin", ".part"}

\* str.lower() and str.strip() of the pieces used here
Lower(s) ==
    CASE s = ".PDF" -> ".pdf"
      [] s = "Text/HTML " -> "text/html "
      [] OTHER -> s
Strip(s) ==
    CASE s = "text/html " -> "text/html"
      [] s = "Text/HTML " -> "Text/HTML"
      [] OTHER -> s

Last(s) == s[Len(s)]
Front(s) == SubSeq(s, 1, Len(s) - 1)

\* os.path.splitext: <<root, ext>>; a leading period is part of the root
splitext(p) ==
    IF Len(p) > 1 /\ Last(p) \in Exts THEN <<Front(p), Last(p)>> ELSE <<p, "">>

\* URL, line 10: the directory and the file of the catalog page's path
BaseDir == <<<<"egfntd">>, <<"ntdgo">>, <<"kds">>>>
BaseFile == <<"4", ".php">>

\* RFC 3986 remove_dot_segments as urljoin applies it; a path that ends in
\* ".." ends in "/", an empty last segment
RECURSIVE RemoveDots(_, _)
RemoveDots(done, todo) ==
    IF todo = <<>> THEN done
    ELSE IF Head(todo) = <<"..">>
         THEN RemoveDots(IF done = <<>> THEN done ELSE Front(done),
                         IF Len(todo) = 1 THEN <<<<>>>> ELSE Tail(todo))
         ELSE RemoveDots(Append(done, Head(todo)), Tail(todo))

\* urljoin(URL, href), line 227, of a relative href
urljoin(href) ==
    IF href.path = <<>>
    THEN [path |-> Append(BaseDir, BaseFile),
          query |-> IF href.query = <<>> THEN <<>> ELSE href.query,
          frag |-> href.frag]
    ELSE [path |-> RemoveDots(BaseDir, href.path), query |-> href.query, frag |-> href.frag]

HasPdf(pieces) == \E k \in 1..Len(pieces) : Lower(pieces[k]) = ".pdf"

\* the last piece of the whole href string
LastPiece(u) ==
    IF u.frag # <<>> THEN Last(u.frag)
    ELSE IF u.query # <<>> THEN Last(u.query)
    ELSE IF u.path # <<>> /\ Last(u.path) # <<>> THEN Last(Last(u.path))
    ELSE ""

\* is_pdf_href, lines 51-56
is_pdf_href(u) ==
    \/ \E k \in 1..Len(u.path) : HasPdf(u.path[k])
    \/ HasPdf(u.query)
    \/ Lower(LastPiece(u)) = ".pdf"

\* mimetypes.guess_extension for the types used here, "" for None
MimeExt(ct) ==
    CASE ct = "application/pdf" -> ".pdf"
      [] ct = "text/html" -> ".html"
      [] OTHER -> ""

\* os.path.splitext(urlparse(url).path)[1].lower(), line 68
UrlExt(u) ==
    IF u.path = <<>> THEN "" ELSE Lower(splitext(Last(u.path))[2])

\* guess_ext, lines 58-69
guess_ext(content_type, url) ==
    LET ct == IF content_type = None THEN "" ELSE Lower(Strip(Head(content_type)))
    IN  IF is_pdf_href(url) THEN ".pdf"
        ELSE IF content_type # None /\ ct = "application/pdf" THEN ".pdf"
        ELSE IF content_type # None /\ MimeExt(ct) # "" THEN MimeExt(ct)
        ELSE IF UrlExt(url) # "" THEN UrlExt(url)
        ELSE ".bin"

Counter(i) == " (" \o ToString(i) \o ")"

\* unique_path, lines 71-80, in a folder holding the files named in names
unique_path(names, stem, e) ==
    IF Append(stem, e) \notin names THEN Append(stem, e)
    ELSE LET free == {i \in 1..(Cardinality(names) + 1) :
                        Append(Append(stem, Counter(i)), e) \notin names}
         IN  Append(Append(stem, Counter(Min(free))), e)

(***************************************************************************)
(* The download loop of main, lines 225-237, and download, lines 82-92.    *)
(***************************************************************************)
MaxItems == 2       \* rows extracted from the table
BodyChunks == 2     \* reads shutil.copyfileobj needs for a body

Designations == {<<"A">>, <<"A", " (1)">>}

Hrefs ==
    { [path |-> <<<<"files">>, <<"a", ".PDF">>>>, query |-> <<>>, frag |-> <<>>],
      [path |-> <<<<"doc">>>>, query |-> <<>>, frag |-> <<>>],
      [path |-> <<<<"c", ".html">>>>, query |-> <<>>, frag |-> <<>>],
      [path |-> <<<<"a", ".pdf">>, <<"..">>>>, query |-> <<>>, frag |-> <<>>],
      [path |-> <<>>, query |-> <<"file=a", ".pdf">>, frag |-> <<>>] }

ContentTypes ==
    { None, <<"application/pdf">>, <<"Text/HTML ", " charset=utf-8">>, <<"application/x-unknown">> }

\* lines 226-228
StartItem ==
    /\ dpc = "loop"
    /\ di <= Len(rows)
    /\ file_url' = urljoin(rows[di][2])
    /\ dest' = unique_path(DOMAIN fs, rows[di][1], ".pdf")
    /\ dpc' = "get"
    /\ UNCHANGED <<onlyPdf, rows, di, fs, resp, ext, final, tmp, ok, err, log, notDlVars>>

\* lines 83-84 raise (no connection, a timeout, an error status); lines 233-235
GetFails ==
    /\ dpc = "get"
    /\ err' = err + 1
    /\ log' = Append(log, [row |-> di, result |-> "err", path |-> <<>>, existed |-> FALSE])
    /\ di' = di + 1
    /\ dpc' = "loop"
    /\ UNCHANGED <<onlyPdf, rows, fs, dest, file_url, resp, ext, final, tmp, ok, notDlVars>>

\* a download that writes the body straight to the final name
GetRespondsInPlace ==
    /\ dpc = "get"
    /\ \E ct \in ContentTypes :
        LET e == guess_ext(ct, file_url)
            f == Append(splitext(dest)[1], e)
        IN  /\ resp' = ct
            /\ ext' = e
            /\ final' = f
            /\ tmp' = f
            /\ fs' = [n \in DOMAIN fs \cup {f} |->
                        IF n = f THEN [got |-> 0, total |-> BodyChunks] ELSE fs[n]]
    /\ dpc' = "copy"
    /\ UNCHANGED <<onlyPdf, rows, di, dest, file_url, ok, err, log, notDlVars>>

\* lines 83-89: the response arrives, the name is rewritten, tmp is opened "wb"
GetResponds ==
    /\ dpc = "get"
    /\ \E ct \in ContentTypes :
        LET e == guess_ext(ct, file_url)
            f == Append(splitext(dest)[1], e)
            t == Append(f, ".part")
        IN  /\ resp' = ct
            /\ ext' = e
            /\ final' = f
            /\ tmp' = t
            /\ fs' = [n \in DOMAIN fs \cup {t} |->
                        IF n = t THEN [got |-> 0, total |-> BodyChunks] ELSE fs[n]]
    /\ dpc' = "copy"
    /\ UNCHANGED <<onlyPdf, rows, di, dest, file_url, ok, err, log, notDlVars>>

\* line 90: one read of the body is written to tmp
CopyChunk ==
    /\ dpc = "copy"
    /\ fs[tmp].got < fs[tmp].total
    /\ fs' = [fs EXCEPT ![tmp].got = @ + 1]
    /\ UNCHANGED <<onlyPdf, rows, di, dpc, dest, file_url, resp, ext, final, tmp, ok, err, log, notDlVars>>

\* a loop without the try: the error of a broken transfer ends the run
CopyFailsEscapes ==
    /\ dpc = "copy"
    /\ fs[tmp].got < fs[tmp].total
    /\ dpc' = "done"
    /\ UNCHANGED <<onlyPdf, rows, di, fs, dest, file_url, resp, ext, final, tmp, ok, err, log, notDlVars>>

\* line 90 raises (the transfer breaks); lines 233-235
CopyFails ==
    /\ dpc = "copy"
    /\ fs[tmp].got < fs[tmp].total
    /\ err' = err + 1
    /\ log' = Append(log, [row |-> di, result |-> "err", path |-> <<>>, existed |-> FALSE])
    /\ di' = di + 1
    /\ dpc' = "loop"
    /\ UNCHANGED <<onlyPdf, rows, fs, dest, file_url, resp, ext, final, tmp, ok, notDlVars>>

\* lines 91-92 and 231-232: the body is complete, os.replace(tmp, dest_path)
Replace ==
    /\ dpc = "copy"
    /\ fs[tmp].got = fs[tmp].total
    /\ fs' = [n \in (DOMAIN fs \ {tmp}) \cup {final} |-> IF n = final THEN fs[tmp] ELSE fs[n]]
    /\ ok' = ok + 1
    /\ log' = Append(log, [row |-> di, result |-> "ok", path |-> final,
                           existed |-> final \in DOMAIN fs])
    /\ di' = di + 1
    /\ dpc' = "loop"
    /\ UNCHANGED <<onlyPdf, rows, dest, file_url, resp, ext, final, tmp, err, notDlVars>>

\* line 237
Summary ==
    /\ dpc = "loop"
    /\ di > Len(rows)
    /\ dpc' = "done"
    /\ UNCHANGED <<onlyPdf, rows, di, fs, dest, file_url, resp, ext, final, tmp, ok, err, log, notDlVars>>

\* line 217-225: the rows extract_rows kept (line 174), an empty target folder
Init ==
    /\ TableIdle
    /\ DedupIdle
    /\ SearchIdle
    /\ SanitizeIdle
    /\ onlyPdf \in BOOLEAN
    /\ \E n \in 1..MaxItems :
        rows \in [1..n -> {<<d, h>> : d \in Designations,
                               h \in {u \in Hrefs : onlyPdf => is_pdf_href(u)}}]
    /\ di = 1
    /\ dpc = "loop"
    /\ fs = <<>>
    /\ dest = <<>>
    /\ file_url = NoUrl
    /\ resp = None
    /\ ext = ""
    /\ final = <<>>
    /\ tmp = <<>>
    /\ ok = 0
    /\ err = 0
    /\ log = <<>>

Next == StartItem \/ GetFails \/ GetResponds \/ CopyChunk \/ CopyFails \/ Replace \/ Summary

Spec == Init /\ [][Next]_vars

(***************************************************************************)
(* Claims about the downloader.                                            *)
(***************************************************************************)
\* C3 as stated: no download replaces a file that already exists at its
\* final path: when os.replace runs, no file is at the path it writes.
C3_NeverOverwrites ==
    \A k \in 1..Len(log) : log[k].result = "ok" => ~log[k].existed

\* the extension the claim gives: the content type first, the URL path's
\* extension only when the type is absent or unmapped, else ".bin"
ClaimedExt(content_type, url) ==
    LET ct == IF content_type = None THEN "" ELSE Lower(Strip(Head(content_type)))
    IN  IF ct = "application/pdf" THEN ".pdf"
        ELSE IF MimeExt(ct) # "" THEN MimeExt(ct)
        ELSE IF UrlExt(url) # "" THEN UrlExt(url)
        ELSE ".bin"

\* C4 as stated: the saved file's extension is decided by the response's
\* content type first and by the URL only as a fallback.
C4_ContentTypeFirst ==
    dpc = "copy" => ext = ClaimedExt(resp, file_url) /\ Last(final) = ext

IsPart(fname) == Last(fname) = ".part"

\* C5: in every state (the process may stop in any of them), a file at a
\* final name holds a complete body; during a download the bytes go to
\* final + ".part" and the final name is absent or holds a complete body.
C5_FinalNameComplete ==
    /\ \A n \in DOMAIN fs : ~IsPart(n) => fs[n].got = fs[n].total
    /\ dpc = "copy" =>
        /\ tmp = Append(final, ".part")
        /\ tmp \in DOMAIN fs
        /\ final \in DOMAIN fs => fs[final].got = fs[final].total

\* a transfer broke after part of the body: the part file is left incomplete
\* and no file is at the final name
C5_Witness ==
    /\ dpc = "loop"
    /\ Len(log) > 0
    /\ log[Len(log)].result = "err"
    /\ tmp \in DOMAIN fs
    /\ fs[tmp].got > 0
    /\ fs[tmp].got < fs[tmp].total
    /\ final \notin DOMAIN fs

\* C8: at the summary every row was attempted once, in list order, whatever
\* failed, and ok + err is the number of rows, err the number that raised.
C8_EveryRowAttempted ==
    dpc = "done" =>
        /\ Len(log) = Len(rows)
        /\ \A k \in 1..Len(log) : log[k].row = k
        /\ ok + err = Len(rows)
        /\ err = Cardinality({k \in 1..Len(log) : log[k].result = "err"})

\* the summary is reached after the first row failed and a later row was saved
C8_Witness ==
    /\ dpc = "done"
    /\ Len(log) >= 2
    /\ log[1].result = "err"
    /\ log[Len(log)].result = "ok"
    /\ err >= 1
    /\ ok >= 1

TableInit ==
    /\ DownloadIdle
    /\ DedupIdle
    /\ SearchIdle
    /\ SanitizeIdle
    /\ \E shape \in Shapes :
        \E c \in [1..NCells(shape) -> Cells], h \in [1..NRows(shape) -> BOOLEAN] :
            tables = Page(shape, c, h)
    /\ ti = 1
    /\ tpc = "scan"
    /\ ret = [table |-> 0, idx |-> None]
    /\ idxs = <<>>

TableNext == FoundTable \/ SkipTable \/ NoTable

SpecTable == TableInit /\ [][TableNext]_vars

(***************************************************************************)
(* Claims about the table and column classifier.                           *)
(***************************************************************************)
\* the 0-based indices of the header cells of t that contain the marker
MarkedCols(t) == {i - 1 : i \in {k \in 1..Len(Headers(t)) : Headers(t)[k].marker}}

\* m is the first table of the page whose header row holds a marked cell
FirstMarked(m) ==
    /\ MarkedCols(tables[m]) # {}
    /\ \A j \in 1..(m - 1) : MarkedCols(tables[j]) = {}

\* t holds a hyperlink in a row after its first row
LinkBelowFirstRow(t) ==
    \E i \in 2..Len(t.rows) : \E k \in 1..Len(t.rows[i].cells) : t.rows[i].cells[k].link

\* t holds a hyperlink in its first row
LinkInFirstRow(t) ==
    Len(t.rows) > 0 /\ \E k \in 1..Len(t.rows[1].cells) : t.rows[1].cells[k].link

\* C1 as stated: find_target_table returns the first table whose header row
\* holds a marked cell, with the index of such a cell, whatever the tables
\* before it contain.
C1_FirstMarkedTableAlways ==
    tpc = "returned" =>
        \A m \in 1..Len(tables) :
            FirstMarked(m) => ret.table = m /\ \E c \in MarkedCols(tables[m]) : ret.idx = Some(c)

\* C1 amended: find_target_table returns the first table whose header row
\* holds a marked cell, with the index of its leftmost marked header cell,
\* provided no table before it holds a hyperlink in a row after its first row
\* (such a table is returned instead, by the link-count rule).
C1_FirstMarkedTable ==
    tpc = "returned" =>
        \A m \in 1..Len(tables) :
            (FirstMarked(m) /\ \A j \in 1..(m - 1) : ~LinkBelowFirstRow(tables[j]))
                => ret.table = m /\ ret.idx = Some(Min(MarkedCols(tables[m])))

\* a marked table in second place, behind a table with a hyperlink in its
\* first row only, is returned with the index of a header cell that is not
\* the first
C1_Witness ==
    /\ tpc = "returned"
    /\ Len(tables) >= 2
    /\ FirstMarked(2)
    /\ LinkInFirstRow(tables[1])
    /\ ~LinkBelowFirstRow(tables[1])
    /\ ret = [table |-> 2, idx |-> Some(1)]

\* the rows of t the claim counts: every row but the header row
DataRows(t) == (1..Len(t.rows)) \ {HeaderRow(t)}

\* the number of data rows of t with a hyperlink in column col (0-based)
DataLinks(t, col) ==
    Cardinality({i \in DataRows(t) :
        Len(t.rows[i].cells) > col /\ t.rows[i].cells[col + 1].link})

\* C2 as stated: for a table without a marked header cell,
\* detect_designation_col returns the column with strictly the most data rows
\* holding a hyperlink, and column 0 when all columns have the same count.
\* (A table without any hyperlink in a data row yields no column, as the
\* claim's own source says, and is not taken as a tie here.)
C2_MostLinkedColumn ==
    \A j \in 1..Len(idxs) :
        LET t == tables[j]
            cols == 0..(MaxCols(t) - 1)
        IN  MarkedCols(t) = {} =>
                /\ \A c \in cols :
                      (/\ DataLinks(t, c) > 0
                       /\ \A d \in cols \ {c} : DataLinks(t, d) < DataLinks(t, c))
                          => idxs[j] = Some(c)
                /\ (/\ cols # {}
                    /\ \A c \in cols : DataLinks(t, c) > 0
                    /\ \A c, d \in cols : DataLinks(t, c) = DataLinks(t, d))
                          => idxs[j] = Some(0)

(***************************************************************************)
(* _dedup_rects, lines 44-53.  A coordinate is a number of thousandths of  *)
(* a point; the ones drawn are even, so none lies halfway between two      *)
(* hundredths, where round() of a float depends on its binary expansion.   *)
(***************************************************************************)
MaxRects == 3       \* rectangles _search_rects collected on a page

Rects == {<<x0, y0, x1, y1>> : x0 \in {4, 6, 14, 26}, y0 \in {4, 6}, x1 \in {104, 106}, y1 \in {54}}

\* a rounding that cuts the third decimal off
Truncate2(v) == v \div 10

\* round(v, 2), line 48, in hundredths: to the nearest, a tie to the even one
Round2(v) ==
    LET q == v \div 10
        r == v % 10
    IN  IF r < 5 THEN q
        ELSE IF r > 5 THEN q + 1
        ELSE IF q % 2 = 0 THEN q ELSE q + 1

\* line 48
Key(r) == <<Round2(r[1]), Round2(r[2]), Round2(r[3]), Round2(r[4])>>

\* lines 47-50: the key was seen, the rectangle is dropped
DedupSkip ==
    /\ rpc = "loop"
    /\ rpos <= Len(rects)
    /\ Key(rects[rpos]) \in seen
    /\ rpos' = rpos + 1
    /\ UNCHANGED <<rects, seen, kept, rpc, notDedupVars>>

\* lines 47-52: a new key, the rectangle is appended to out
DedupKeep ==
    /\ rpc = "loop"
    /\ rpos <= Len(rects)
    /\ Key(rects[rpos]) \notin seen
    /\ seen' = seen \cup {Key(rects[rpos])}
    /\ kept' = Append(kept, rpos)
    /\ rpos' = rpos + 1
    /\ UNCHANGED <<rects, rpc, notDedupVars>>

\* line 53
DedupReturn ==
    /\ rpc = "loop"
    /\ rpos > Len(rects)
    /\ rpc' = "returned"
    /\ UNCHANGED <<rects, rpos, seen, kept, notDedupVars>>

\* lines 60-69: the rectangles of the variants' searches, in the order found
DedupInit ==
    /\ TableIdle
    /\ DownloadIdle
    /\ SearchIdle
    /\ SanitizeIdle
    /\ \E n \in 0..MaxRects : rects \in [1..n -> Rects]
    /\ rpos = 1
    /\ seen = {}
    /\ kept = <<>>
    /\ rpc = "loop"

DedupNext == DedupSkip \/ DedupKeep \/ DedupReturn

SpecDedup == DedupInit /\ [][DedupNext]_vars

(***************************************************************************)
(* Claims about _dedup_rects.                                              *)
(***************************************************************************)
Abs(v) == IF v < 0 THEN 0 - v ELSE v

\* the rounding precision, 0.01, in thousandths
Precision == 10

\* all four coordinates differ by less than the precision
Close(a, b) == \A c \in 1..4 : Abs(a[c] - b[c]) < Precision

\* some coordinate differs by more than the precision
Apart(a, b) == \E c \in 1..4 : Abs(a[c] - b[c]) > Precision

\* the hundredth nearest to v (v is not halfway between two)
Nearest(v) == CHOOSE h \in (v \div 10)..(v \div 10 + 1) : 2 * Abs(v - 10 * h) < Precision

\* all four coordinates have the same nearest hundredth
SameHundredths(a, b) == \A c \in 1..4 : Nearest(a[c]) = Nearest(b[c])

Kept == {kept[k] : k \in 1..Len(kept)}

\* C6 as stated: of two rectangles whose coordinates all differ by less than
\* the precision only one is kept, and two that differ by more than the
\* precision in a coordinate are both kept (each by its first occurrence).
C6_CloseCollapse ==
    rpc = "returned" =>
        \A i, j \in 1..Len(rects) :
            /\ (i < j /\ Close(rects[i], rects[j])) => ~(i \in Kept /\ j \in Kept)
            /\ Apart(rects[i], rects[j]) =>
                 \E a, b \in Kept : a # b /\ rects[a] = rects[i] /\ rects[b] = rects[j]

\* C6 amended: a rectangle is kept exactly when no earlier rectangle has the
\* same four coordinates after rounding to two decimals; the kept ones stay
\* in input order; two rectangles that differ by more than the precision in a
\* coordinate never round alike, so each has a kept rectangle rounding like it.
C6_SameRoundingCollapse ==
    rpc = "returned" =>
        /\ Kept = {i \in 1..Len(rects) :
                     \A j \in 1..(i - 1) : ~SameHundredths(rects[j], rects[i])}
        /\ \A k \in 1..(Len(kept) - 1) : kept[k] < kept[k + 1]
        /\ \A i, j \in 1..Len(rects) :
             Apart(rects[i], rects[j]) =>
                \E a, b \in Kept :
                    /\ a # b
                    /\ SameHundredths(rects[a], rects[i])
                    /\ SameHundredths(rects[b], rects[j])

\* three rectangles: the second differs from the first by 0.002 and is kept,
\* the third rounds like the second without being equal to it and is dropped
C6_Witness ==
    /\ rpc = "returned"
    /\ Len(rects) = 3
    /\ Close(rects[1], rects[2])
    /\ rects[3] # rects[2]
    /\ SameHundredths(rects[2], rects[3])
    /\ kept = <<1, 2>>

(***************************************************************************)
(* main's scan loop, lines 143-167, and highlight_file, lines 71-104.  A   *)
(* pdf is its directory under the root, its file name, the number of       *)
(* rectangles _search_rects returns for each page, and how reading it      *)
(* fails: "none", "open" (fitz.open raises) or "search" (a page raises).   *)
(***************************************************************************)
MaxPdfs == 2        \* pdfs under the root
MaxPages == 2       \* pages of a pdf
MaxHits == 2        \* rectangles found on a page

Paths == {<<d, n>> : d \in {"d1", "d2"}, n \in {"x.pdf", "y.pdf"}}

Docs == UNION {[1..n -> 0..MaxHits] : n \in 1..MaxPages}

\* line 95: hits, summed over the pages
RECURSIVE Hits(_)
Hits(pages) == IF pages = <<>> THEN 0 ELSE Head(pages) + Hits(Tail(pages))

\* line 86 and sorted(pages), line 158: the 1-based numbers of the pages with hits
RECURSIVE PageList(_, _)
PageList(pages, k) ==
    IF k > Len(pages) THEN <<>>
    ELSE IF pages[k] > 0 THEN <<k>> \o PageList(pages, k + 1)
    ELSE PageList(pages, k + 1)

\* lines 80 or 83 raise; lines 160-161
ScanFails ==
    /\ spc = "loop"
    /\ si <= Len(pdfs)
    /\ pdfs[si].fail # "none"
    /\ si' = si + 1
    /\ UNCHANGED <<pdfs, spc, outDir, matched, total_hits, notSearchVars>>

\* lines 82-97 and 156-157: no page has a hit, nothing is saved
ScanNoHit ==
    /\ spc = "loop"
    /\ si <= Len(pdfs)
    /\ pdfs[si].fail = "none"
    /\ Hits(pdfs[si].pages) = 0
    /\ si' = si + 1
    /\ UNCHANGED <<pdfs, spc, outDir, matched, total_hits, notSearchVars>>

\* lines 97-100 and 156-159: the copy is saved as out_dir / pdf_path.name
ScanSaves ==
    /\ spc = "loop"
    /\ si <= Len(pdfs)
    /\ pdfs[si].fail = "none"
    /\ Hits(pdfs[si].pages) > 0
    /\ outDir' = [n \in DOMAIN outDir \cup {pdfs[si].name} |->
                    IF n = pdfs[si].name THEN si ELSE outDir[n]]
    /\ matched' = Append(matched, [saved |-> pdfs[si].name,
                                   hits |-> Hits(pdfs[si].pages),
                                   pages |-> PageList(pdfs[si].pages, 1)])
    /\ total_hits' = total_hits + Hits(pdfs[si].pages)
    /\ si' = si + 1
    /\ UNCHANGED <<pdfs, spc, notSearchVars>>

\* lines 163-177: the summary
ScanDone ==
    /\ spc = "loop"
    /\ si > Len(pdfs)
    /\ spc' = "done"
    /\ UNCHANGED <<pdfs, si, outDir, matched, total_hits, notSearchVars>>

\* lines 143-152: the pdfs rglob found, each path once, and an empty out_dir
SearchInit ==
    /\ TableIdle
    /\ DownloadIdle
    /\ DedupIdle
    /\ SanitizeIdle
    /\ \E n \in 1..MaxPdfs :
        \E ps \in [1..n -> Paths] :
            /\ \A a, b \in 1..n : a # b => ps[a] # ps[b]
            /\ \E ds \in [1..n -> Docs], fl \in [1..n -> {"none", "open", "search"}] :
                pdfs = [k \in 1..n |-> [dir |-> ps[k][1], name |-> ps[k][2],
                                        fail |-> fl[k], pages |-> ds[k]]]
    /\ si = 1
    /\ spc = "loop"
    /\ outDir = <<>>
    /\ matched = <<>>
    /\ total_hits = 0

SearchNext == ScanFails \/ ScanNoHit \/ ScanSaves \/ ScanDone

SpecSearch == SearchInit /\ [][SearchNext]_vars

(***************************************************************************)
(* Claims about the search run.                                            *)
(***************************************************************************)
\* C7 as stated: after a run the output directory holds one file for each
\* document reported as matched and none for another document, so its number
\* of files is the number of matched documents.
C7_OneFilePerMatch ==
    spc = "done" =>
        /\ Cardinality(DOMAIN outDir) = Len(matched)
        /\ \A k \in 1..Len(pdfs) :
             (pdfs[k].fail = "none" /\ Hits(pdfs[k].pages) > 0)
                <=> (pdfs[k].name \in DOMAIN outDir /\ outDir[pdfs[k].name] = k)

(***************************************************************************)
(* sanitize_filename, lines 45-49.  A text is a sequence of characters:    *)
(* "x" stands for a character legal in a file name, "TAB" for a control    *)
(* character that is white space, "SOH" for one that is not, and Block for *)
(* a run of BlockLen legal characters, which only starts a text.           *)
(***************************************************************************)
MaxPieces == 4      \* pieces a text is put together from
NameLimit == 180    \* name[:180]
BlockLen == NameLimit - 2
Block == "x^178"

Pieces == {<<"x">>, <<" ">>, <<"TAB">>, <<"SOH">>, <<"<">>, <<"&">>,
           <<"a", "m", "p", ";">>, <<"l", "t", ";">>}

RECURSIVE Flatten(_)
Flatten(ps) == IF ps = <<>> THEN <<>> ELSE Head(ps) \o Flatten(Tail(ps))

Placeholder == <<"d", "o", "c", "u", "m", "e", "n", "t">>

Whitespace == {" ", "TAB"}
IllegalChars == {"<", "TAB", "SOH"}

\* the characters html.unescape takes as an entity's name: [^\t\n\f <&#;]
NameChar(c) == c \notin {"TAB", " ", "<", "&", "#", ";"}

RECURSIVE NameLen(_)
NameLen(s) == IF s # <<>> /\ NameChar(Head(s)) THEN 1 + NameLen(Tail(s)) ELSE 0

StartsWith(s, pre) == Len(s) >= Len(pre) /\ SubSeq(s, 1, Len(pre)) = pre

\* html's replace_charref for the entities amp and lt: the name itself or
\* its longest prefix of two characters or more that is an entity, else the
\* text as it is
Charref(nm) ==
    IF nm = <<"a", "m", "p", ";">> \/ StartsWith(nm, <<"a", "m", "p">>)
    THEN <<"&">> \o SubSeq(nm, (IF nm = <<"a", "m", "p", ";">> THEN 5 ELSE 4), Len(nm))
    ELSE IF nm = <<"l", "t", ";">> \/ StartsWith(nm, <<"l", "t">>)
    THEN <<"<">> \o SubSeq(nm, (IF nm = <<"l", "t", ";">> THEN 4 ELSE 3), Len(nm))
    ELSE <<"&">> \o nm

\* html.unescape, line 46: one pass from the left, what it puts out is not
\* read again
RECURSIVE unescape(_)
unescape(s) ==
    IF s = <<>> THEN <<>>
    ELSE IF Head(s) # "&" THEN <<Head(s)>> \o unescape(Tail(s))
    ELSE LET t == Tail(s)
             n == NameLen(t)
             m == IF n > 0 /\ Len(t) > n /\ t[n + 1] = ";" THEN n + 1 ELSE n
         IN  IF n = 0 THEN <<"&">> \o unescape(t)
             ELSE Charref(SubSeq(t, 1, m)) \o unescape(SubSeq(t, m + 1, Len(t)))

\* str.strip(), line 46
strip(s) ==
    LET solid == {k \in 1..Len(s) : s[k] \notin Whitespace}
    IN  IF solid = {} THEN <<>>
        ELSE SubSeq(s, Min(solid), CHOOSE k \in solid : \A j \in solid : j <= k)

\* re.sub(r'[<>:"/\\|?*\x00-\x1F]', "_", name), line 47
replace_illegal(s) == [k \in 1..Len(s) |-> IF s[k] \in IllegalChars THEN "_" ELSE s[k]]

\* re.sub(r"\s+", " ", name), line 48
RECURSIVE collapse(_)
collapse(s) ==
    IF s = <<>> THEN <<>>
    ELSE IF Head(s) \in Whitespace
         THEN IF Len(s) > 1 /\ s[2] \in Whitespace THEN collapse(Tail(s))
              ELSE <<" ">> \o collapse(Tail(s))
         ELSE <<Head(s)>> \o collapse(Tail(s))

CharLen(c) == IF c = Block THEN BlockLen ELSE 1

\* name[:limit], line 49
RECURSIVE truncate(_, _)
truncate(s, limit) ==
    IF s = <<>> \/ CharLen(Head(s)) > limit THEN <<>>
    ELSE <<Head(s)>> \o truncate(Tail(s), limit - CharLen(Head(s)))

\* sanitize_filename with the replacement done before the strip
sanitize_replace_first(text) ==
    LET r == truncate(collapse(strip(replace_illegal(unescape(text)))), NameLimit)
    IN  IF r = <<>> THEN Placeholder ELSE r

\* sanitize_filename, lines 45-49
sanitize_filename(text) ==
    LET r == truncate(collapse(replace_illegal(strip(unescape(text)))), NameLimit)
    IN  IF r = <<>> THEN Placeholder ELSE r

\* line 178: the cell's text is sanitized
SanitizeOnce ==
    /\ npc = "in"
    /\ out1' = sanitize_filename(name)
    /\ npc' = "once"
    /\ UNCHANGED <<name, out2, notSanVars>>

\* the stem is sanitized again
SanitizeTwice ==
    /\ npc = "once"
    /\ out2' = sanitize_filename(out1)
    /\ npc' = "twice"
    /\ UNCHANGED <<name, out1, notSanVars>>

SanitizeInit ==
    /\ TableIdle
    /\ DownloadIdle
    /\ DedupIdle
    /\ SearchIdle
    /\ \E n \in 0..MaxPieces :
        \E ps \in [1..n -> Pieces], b \in BOOLEAN :
            name = (IF b THEN <<Block>> ELSE <<>>) \o Flatten(ps)
    /\ out1 = <<>>
    /\ out2 = <<>>
    /\ npc = "in"

SanitizeNext == SanitizeOnce \/ SanitizeTwice

SpecSanitize == SanitizeInit /\ [][SanitizeNext]_vars

(***************************************************************************)
(* Claims about sanitize_filename.                                         *)
(***************************************************************************)
AllIllegal(s) == s # <<>> /\ \A k \in 1..Len(s) : s[k] \in IllegalChars

C10_Idempotent ==
    npc = "twice" => out2 = out1

====
